---- MODULE Spec2Model ----
(***************************************************************************)
(* Model of the ResumeAI Desktop command handlers                          *)
(* (desktop/src-tauri/src/main.rs): greet, check_api_health,               *)
(* open_output_folder and get_platform_info, as dispatched by the Tauri    *)
(* host.  Synchronous handlers run to completion in one step; the async    *)
(* check_api_health suspends on `.send().await` and is resumed when the    *)
(* HTTP future resolves.  The network and the operating system are the     *)
(* environment: they decide how a request ends, whether a spawn succeeds   *)
(* and how a spawned child later exits.                                    *)
(***************************************************************************)
EXTENDS Integers, Sequences, FiniteSets, TLC

\* ---------------------------------------------------------------- bounds
\* Number of invocations the host has in flight at once (dispatch slots).
MaxCalls == 2
\* Longest name passed to greet.
MaxNameLen == 2

Slots == 1..MaxCalls

\* ---------------------------------------------------------------- inputs
NameChars == {"A", "!"}

RECURSIVE StringsUpTo(_)
StringsUpTo(n) ==
    IF n = 0 THEN {""}
    ELSE LET shorter == StringsUpTo(n - 1)
         IN  shorter \cup {s \o c : s \in shorter, c \in NameChars}

Names == StringsUpTo(MaxNameLen)

Urls == {"https://example-up.test", "not a url"}
\* Url::parse succeeds on these; on the others the request builder holds an error.
WellFormedUrls == {"https://example-up.test"}

Paths == {"/home/ava/output", "/no/such/dir"}

\* Final response status codes the peer may answer with.
StatusCodes == {200, 299, 300, 404, 503}

\* Build targets: the values of std::env::consts::{OS, ARCH, FAMILY}, fixed
\* at compile time together with cfg(target_os).
Targets ==
    { [os |-> "windows", arch |-> "x86_64",  family |-> "windows"],
      [os |-> "macos",   arch |-> "aarch64", family |-> "unix"],
      [os |-> "linux",   arch |-> "x86_64",  family |-> "unix"],
      [os |-> "freebsd", arch |-> "x86_64",  family |-> "unix"] }

\* Failures of the HTTP future (reqwest::Error) and of spawn (std::io::Error).
HttpErrorKinds == {"dns", "refused", "tls"}
SpawnErrorKinds == {"NotFound", "PermissionDenied"}
SpawnOutcomes == {"spawned"} \cup SpawnErrorKinds

\* ---------------------------------------------------------------- values
Ok(v) == [tag |-> "Ok", val |-> v]
Err(s) == [tag |-> "Err", val |-> s]
NoResult == [tag |-> "None", val |-> ""]
Unit == "()"

\* Display of the underlying failure: what `e.to_string()` prints for `e`.
Display(e) ==
    CASE e = "builder"          -> "builder error: relative URL without a base"
      [] e = "dns"              -> "error sending request: dns error"
      [] e = "refused"          -> "error sending request: connection refused"
      [] e = "tls"              -> "error sending request: invalid peer certificate"
      [] e = "NotFound"         -> "No such file or directory (os error 2)"
      [] e = "PermissionDenied" -> "Permission denied (os error 13)"

\* ---------------------------------------------------------------- state
VARIABLES
    build,   \* the target this binary was compiled for
    calls,   \* per dispatch slot: the handler invocation occupying it
    http,    \* per dispatch slot: state of the invocation's send() future
    procs    \* per dispatch slot: the child process its spawn created

vars == <<build, calls, http, procs>>

IdleCall ==
    [cmd |-> "none", arg |-> "", pc |-> "idle", result |-> NoResult,
     sends |-> <<>>, spawns |-> <<>>]

NoHttp == [kind |-> "none", status |-> 0, err |-> "none"]

Init ==
    /\ build \in Targets
    /\ calls = [i \in Slots |-> IdleCall]
    /\ http = [i \in Slots |-> NoHttp]
    /\ procs = [i \in Slots |-> "none"]

\* ---------------------------------------------------------------- greet
\* Variant: the placeholder is never substituted.
greet_literal(name) == "Hello, {}! Welcome to ResumeAI Desktop!"

greet(name) == "Hello, " \o name \o "! Welcome to ResumeAI Desktop!"

\* Variant: a synchronous handler that cannot start while a health check is
\* suspended (commands run one at a time).
Invoke_greet_exclusive(i, name) ==
    /\ calls[i].pc = "idle"
    /\ \A j \in Slots : calls[j].pc # "awaiting"
    /\ calls' = [calls EXCEPT ![i] =
                    [IdleCall EXCEPT !.cmd = "greet", !.arg = name,
                                     !.pc = "done", !.result = Ok(greet(name))]]
    /\ UNCHANGED <<build, http, procs>>

Invoke_greet(i, name) ==
    /\ calls[i].pc = "idle"
    /\ calls' = [calls EXCEPT ![i] =
                    [IdleCall EXCEPT !.cmd = "greet", !.arg = name,
                                     !.pc = "done", !.result = Ok(greet(name))]]
    /\ UNCHANGED <<build, http, procs>>

\* ---------------------------------------------------------------- check_api_health
\* Variant: redirects counted as healthy.
is_success_below_400(status) == status >= 200 /\ status < 400

\* StatusCode::is_success: 200 <= status < 300.
is_success(status) == status >= 200 /\ status < 300

\* Variant: the description wrapped in a fixed prefix.
err_string_prefixed(e) == "operation failed: " \o Display(e)

\* `.map_err(|e| e.to_string())` and `Err(e) => Err(e.to_string())`: the error
\* handed to the caller is the failure's own description.
err_string(e) == Display(e)

\* Variant: a transport failure reported as "not healthy".
check_api_health_result_swallow(r) ==
    IF r.kind = "response" /\ is_success(r.status) THEN Ok(TRUE) ELSE Ok(FALSE)

\* The match on the resolved send() future.
check_api_health_result(r) ==
    IF r.kind = "response"
    THEN IF is_success(r.status) THEN Ok(TRUE) ELSE Ok(FALSE)
    ELSE Err(err_string(r.err))

\* First half of the handler: build a client, call get(&url).send() once and
\* suspend on the await.  A malformed URL makes the future resolve to a
\* builder error.
Invoke_check_api_health(i, url) ==
    /\ calls[i].pc = "idle"
    /\ calls' = [calls EXCEPT ![i] =
                    [IdleCall EXCEPT !.cmd = "check_api_health", !.arg = url,
                                     !.pc = "awaiting",
                                     !.sends = <<[method |-> "GET", url |-> url]>>]]
    /\ http' = [http EXCEPT ![i] =
                    IF url \in WellFormedUrls
                    THEN [kind |-> "inflight", status |-> 0, err |-> "none"]
                    ELSE [kind |-> "failure", status |-> 0, err |-> "builder"]]
    /\ UNCHANGED <<build, procs>>

\* Variant: one retry after a failure or a non-2xx status.
Resume_check_api_health_retry(i) ==
    /\ calls[i].pc = "awaiting"
    /\ http[i].kind \in {"response", "failure"}
    /\ IF check_api_health_result(http[i]) # Ok(TRUE) /\ Len(calls[i].sends) < 2
       THEN /\ calls' = [calls EXCEPT ![i].sends = Append(@, calls[i].sends[1])]
            /\ http' = [http EXCEPT ![i] = [kind |-> "inflight", status |-> 0, err |-> "none"]]
       ELSE /\ calls' = [calls EXCEPT ![i].pc = "done",
                                      ![i].result = check_api_health_result(http[i])]
            /\ http' = http
    /\ UNCHANGED <<build, procs>>

\* Variant: the await is only woken by a response, never by a failure.
Resume_check_api_health_on_response(i) ==
    /\ calls[i].pc = "awaiting"
    /\ http[i].kind = "response"
    /\ calls' = [calls EXCEPT ![i].pc = "done",
                              ![i].result = check_api_health_result(http[i])]
    /\ UNCHANGED <<build, http, procs>>

\* Second half: the await resumes once the future has resolved.
Resume_check_api_health(i) ==
    /\ calls[i].pc = "awaiting"
    /\ http[i].kind \in {"response", "failure"}
    /\ calls' = [calls EXCEPT ![i].pc = "done",
                              ![i].result = check_api_health_result(http[i])]
    /\ UNCHANGED <<build, http, procs>>

\* Environment: the peer answers with a status line.
HttpResponse(i, status) ==
    /\ http[i].kind = "inflight"
    /\ http' = [http EXCEPT ![i] = [kind |-> "response", status |-> status, err |-> "none"]]
    /\ UNCHANGED <<build, calls, procs>>

\* Environment: the request fails in transport.
HttpFailure(i, e) ==
    /\ http[i].kind = "inflight"
    /\ http' = [http EXCEPT ![i] = [kind |-> "failure", status |-> 0, err |-> e]]
    /\ UNCHANGED <<build, calls, procs>>

\* Environment: the peer accepts the connection and never answers.  The
\* client is built by Client::new(), which sets no timeout.
HttpStall(i) ==
    /\ http[i].kind = "inflight"
    /\ http' = [http EXCEPT ![i].kind = "stalled"]
    /\ UNCHANGED <<build, calls, procs>>

\* ---------------------------------------------------------------- open_output_folder
\* The launcher blocks that cfg(target_os) compiles into the handler, in
\* source order.
compiled_launchers(os) ==
    (IF os = "windows" THEN <<"explorer">> ELSE <<>>)
    \o (IF os = "macos" THEN <<"open">> ELSE <<>>)
    \o (IF os = "linux" THEN <<"xdg-open">> ELSE <<>>)

\* The handler runs its compiled block: Command::new(cmd).arg(&path).spawn(),
\* `?` returning the mapped error; then Ok(()).  `outcome` is the operating
\* system's answer to the spawn call.
Invoke_open_output_folder(i, path, outcome) ==
    /\ calls[i].pc = "idle"
    /\ LET cmds == compiled_launchers(build.os)
           attempted == [k \in 1..Len(cmds) |->
                            [program |-> cmds[k], args |-> <<path>>, outcome |-> outcome]]
           failed == Len(cmds) > 0 /\ outcome # "spawned"
       IN  /\ calls' = [calls EXCEPT ![i] =
                    [IdleCall EXCEPT !.cmd = "open_output_folder", !.arg = path,
                                     !.pc = "done",
                                     !.spawns = attempted,
                                     !.result = IF failed THEN Err(err_string(outcome))
                                                ELSE Ok(Unit)]]
           /\ procs' = [procs EXCEPT ![i] =
                    IF Len(cmds) > 0 /\ outcome = "spawned" THEN "running" ELSE "none"]
    /\ UNCHANGED <<build, http>>

\* Environment: a spawned launcher exits, with or without having opened the
\* folder.  Nothing in the handler observes it.
ChildExit(i, status) ==
    /\ procs[i] = "running"
    /\ procs' = [procs EXCEPT ![i] = status]
    /\ UNCHANGED <<build, calls, http>>

\* ---------------------------------------------------------------- get_platform_info
\* Variant: os and family read from each other's constant.
get_platform_info_swapped ==
    [os |-> build.family, arch |-> build.arch, family |-> build.os]

get_platform_info ==
    [os |-> build.os, arch |-> build.arch, family |-> build.family]

Invoke_get_platform_info(i) ==
    /\ calls[i].pc = "idle"
    /\ calls' = [calls EXCEPT ![i] =
                    [IdleCall EXCEPT !.cmd = "get_platform_info",
                                     !.pc = "done", !.result = Ok(get_platform_info)]]
    /\ UNCHANGED <<build, http, procs>>

\* ---------------------------------------------------------------- host
\* The host hands a finished invocation's result to the frontend; nothing of
\* the invocation outlives it (a detached child is no longer observed).
Return(i) ==
    /\ calls[i].pc = "done"
    /\ calls' = [calls EXCEPT ![i] = IdleCall]
    /\ http' = [http EXCEPT ![i] = NoHttp]
    /\ procs' = [procs EXCEPT ![i] = "none"]
    /\ UNCHANGED build

Next ==
    \/ \E i \in Slots, name \in Names : Invoke_greet(i, name)
    \/ \E i \in Slots, url \in Urls : Invoke_check_api_health(i, url)
    \/ \E i \in Slots : Resume_check_api_health(i)
    \/ \E i \in Slots, status \in StatusCodes : HttpResponse(i, status)
    \/ \E i \in Slots, e \in HttpErrorKinds : HttpFailure(i, e)
    \/ \E i \in Slots : HttpStall(i)
    \/ \E i \in Slots, path \in Paths, outcome \in SpawnOutcomes :
            Invoke_open_output_folder(i, path, outcome)
    \/ \E i \in Slots, status \in {"exited_ok", "exited_fail"} : ChildExit(i, status)
    \/ \E i \in Slots : Invoke_get_platform_info(i)
    \/ \E i \in Slots : Return(i)

Spec == Init /\ [][Next]_vars

\* check_api_health reads nothing of the build, so its progress is checked for
\* one build, with every handler still interleaving.
LiveInit == Init /\ build.os = "linux"

\* The async runtime polls a woken task, the network eventually settles a
\* request one way or another (a silent peer included), and the host delivers
\* finished results.
FairSpec ==
    /\ LiveInit /\ [][Next]_vars
    /\ \A i \in Slots : WF_vars(Resume_check_api_health(i))
    /\ \A i \in Slots : WF_vars(Return(i))
    /\ \A i \in Slots :
          WF_vars((\E status \in StatusCodes : HttpResponse(i, status))
                  \/ (\E e \in HttpErrorKinds : HttpFailure(i, e))
                  \/ HttpStall(i))

\* ================================================================ claims
HealthDone(i) == calls[i].cmd = "check_api_health" /\ calls[i].pc = "done"
OpenDone(i) == calls[i].cmd = "open_output_folder" /\ calls[i].pc = "done"

\* C1: whenever check_api_health received an HTTP response, its result is the
\* boolean true exactly when the status is in 200..299 and the boolean false
\* for every other status; a received response never yields an error.
C1_Theorem ==
    \A i \in Slots :
        (HealthDone(i) /\ http[i].kind = "response") =>
            /\ calls[i].result.tag = "Ok"
            /\ calls[i].result.val \in BOOLEAN
            /\ calls[i].result.val = TRUE <=> http[i].status \in 200..299

C1_Witness ==
    \E i, j \in Slots :
        /\ HealthDone(i) /\ http[i].kind = "response" /\ http[i].status = 299
        /\ calls[i].result = Ok(TRUE)
        /\ HealthDone(j) /\ http[j].kind = "response" /\ http[j].status = 300
        /\ calls[j].result = Ok(FALSE)

\* C2: whenever the request of check_api_health failed in transport (malformed
\* URL, DNS, connection refused, TLS), the result is an error and not a
\* boolean; every completed invocation yields exactly one of true, false, error.
C2_Theorem ==
    \A i \in Slots :
        HealthDone(i) =>
            /\ http[i].kind = "failure" => calls[i].result.tag = "Err"
            /\ calls[i].result.tag \in {"Ok", "Err"}
            /\ calls[i].result.tag = "Ok" => calls[i].result.val \in BOOLEAN
            /\ calls[i].result.tag = "Err" => calls[i].result.val \in STRING

C2_Witness ==
    \E i, j \in Slots :
        /\ HealthDone(i) /\ calls[i].arg = "not a url" /\ http[i].err = "builder"
        /\ calls[i].result.tag = "Err"
        /\ HealthDone(j) /\ http[j].kind = "failure" /\ http[j].err = "refused"
        /\ calls[j].result.tag = "Err"

\* The failure a finished invocation's error result stems from.
UnderlyingFailure(i) ==
    IF calls[i].cmd = "check_api_health"
    THEN http[i].err
    ELSE calls[i].spawns[Len(calls[i].spawns)].outcome

ReturnedError(i) == calls[i].pc = "done" /\ calls[i].result.tag = "Err"

\* C3 (as stated): every failure a handler returns is the string
\* "operation failed: <description>", <description> being the description of
\* the underlying failure.
C3_Original ==
    \A i \in Slots :
        ReturnedError(i) =>
            calls[i].result.val = "operation failed: " \o Display(UnderlyingFailure(i))

\* C3 (amended): every failure a handler returns is a single string equal to
\* the description of the underlying failure, with nothing put before it.
C3_Theorem ==
    \A i \in Slots :
        ReturnedError(i) =>
            /\ calls[i].cmd \in {"check_api_health", "open_output_folder"}
            /\ calls[i].result.val = Display(UnderlyingFailure(i))

C3_Witness ==
    \E i, j \in Slots :
        /\ ReturnedError(i) /\ calls[i].cmd = "check_api_health"
        /\ calls[i].result.val = "error sending request: dns error"
        /\ ReturnedError(j) /\ calls[j].cmd = "open_output_folder"
        /\ calls[j].result.val = "No such file or directory (os error 2)"

\* C4: on every build target, every open_output_folder(path) attempts exactly
\* one spawn, of one of explorer / open / xdg-open, with the caller's path
\* unmodified as the sole argument; never zero spawns, never more than one.
C4_Original ==
    \A i \in Slots :
        OpenDone(i) =>
            /\ Len(calls[i].spawns) = 1
            /\ calls[i].spawns[1].program \in {"explorer", "open", "xdg-open"}
            /\ calls[i].spawns[1].args = <<calls[i].arg>>

\* C5: open_output_folder reports success exactly when the launcher process
\* was spawned and an error exactly when the spawn call failed, whatever the
\* path and whatever the child does later.
C5_Original ==
    \A i \in Slots :
        OpenDone(i) =>
            /\ calls[i].result.tag = "Ok" <=>
                   (Len(calls[i].spawns) = 1 /\ calls[i].spawns[1].outcome = "spawned")
            /\ calls[i].result.tag = "Err" <=>
                   (Len(calls[i].spawns) = 1 /\ calls[i].spawns[1].outcome # "spawned")

\* C6: each check_api_health invocation issues exactly one request (one
\* get(..).send()), whatever its outcome: no retry after a failure or a
\* non-2xx status, no result without a request of its own, and no request
\* belongs to anything but a check_api_health invocation.
C6_Theorem ==
    \A i \in Slots :
        /\ calls[i].cmd = "check_api_health" =>
              /\ Len(calls[i].sends) = 1
              /\ calls[i].sends[1] = [method |-> "GET", url |-> calls[i].arg]
              /\ http[i].kind # "none"
        /\ calls[i].cmd # "check_api_health" =>
              /\ calls[i].sends = <<>>
              /\ http[i].kind = "none"

C6_Witness ==
    \E i, j \in Slots :
        /\ HealthDone(i) /\ http[i].kind = "failure" /\ http[i].err = "tls"
        /\ Len(calls[i].sends) = 1
        /\ HealthDone(j) /\ http[j].kind = "response" /\ http[j].status = 503
        /\ Len(calls[j].sends) = 1

GreetDone(i) == calls[i].cmd = "greet" /\ calls[i].pc = "done"

Contains(s, sub) ==
    \E k \in 1..(Len(s) - Len(sub) + 1) : SubSeq(s, k, k + Len(sub) - 1) = sub

\* The state of every slot other than those where `cmd` has just been invoked.
OthersUntouchedBy(cmd) ==
    \A j \in Slots :
        (calls[j].cmd = cmd \/ calls'[j].cmd # cmd) =>
            /\ calls'[j] = calls[j]
            /\ http'[j] = http[j]
            /\ procs'[j] = procs[j]

Invoked(cmd) == \E i \in Slots : calls[i].cmd # cmd /\ calls'[i].cmd = cmd

\* C7: greet(name) returns exactly "Hello, " + name + "! Welcome to ResumeAI
\* Desktop!", which contains name; it never returns an error, and a greet
\* invocation changes nothing of any other invocation, request or child.
C7_Theorem ==
    /\ [](\A i \in Slots :
            GreetDone(i) =>
                /\ calls[i].result.tag = "Ok"
                /\ calls[i].result.val =
                       "Hello, " \o calls[i].arg \o "! Welcome to ResumeAI Desktop!"
                /\ Contains(calls[i].result.val, calls[i].arg))
    /\ [][Invoked("greet") =>
             /\ OthersUntouchedBy("greet")
             /\ \A i \in Slots : http'[i] = http[i] /\ procs'[i] = procs[i]]_vars

C7_Witness ==
    \E i, j \in Slots :
        /\ GreetDone(i) /\ calls[i].arg = "A!"
        /\ calls[i].result.val = "Hello, A!! Welcome to ResumeAI Desktop!"
        /\ i # j /\ calls[j].pc = "awaiting"

PlatformDone(i) == calls[i].cmd = "get_platform_info" /\ calls[i].pc = "done"

\* C8: get_platform_info always succeeds with a record of exactly the fields
\* os, arch and family, whose values are those of the build and so the same on
\* every call, whatever was invoked before; the call changes nothing of any
\* other invocation, and nothing ever changes the build's constants.
C8_Theorem ==
    /\ [](\A i \in Slots :
            PlatformDone(i) =>
                /\ calls[i].result.tag = "Ok"
                /\ DOMAIN calls[i].result.val = {"os", "arch", "family"}
                /\ calls[i].result.val.os = build.os
                /\ calls[i].result.val.arch = build.arch
                /\ calls[i].result.val.family = build.family
                /\ \A j \in Slots :
                      PlatformDone(j) => calls[j].result = calls[i].result)
    /\ [][/\ build' = build
          /\ Invoked("get_platform_info") =>
                /\ OthersUntouchedBy("get_platform_info")
                /\ \A i \in Slots : http'[i] = http[i] /\ procs'[i] = procs[i]]_vars

C8_Witness ==
    \E i, j \in Slots :
        /\ PlatformDone(i) /\ calls[i].result.val.os = "linux"
        /\ calls[i].result.val.arch = "x86_64" /\ calls[i].result.val.family = "unix"
        /\ i # j /\ calls[j].pc = "awaiting" /\ http[j].kind = "stalled"

\* What the environment answered to invocation i.
External(i) == <<http[i], [k \in DOMAIN calls[i].spawns |-> calls[i].spawns[k].outcome]>>

Suspended(i) == calls[i].cmd = "check_api_health" /\ calls[i].pc = "awaiting"

\* C9: while check_api_health invocations are suspended, every other handler
\* can still be dispatched and runs to completion, and a suspended invocation
\* whose own future has resolved can resume; no step touches more than one
\* invocation, and invocations with the same inputs and the same external
\* answers have the same result under every interleaving.
C9_Theorem ==
    /\ [](\A i, j \in Slots :
            (i # j /\ Suspended(i)) =>
                /\ calls[j].pc = "idle" =>
                      /\ \A name \in Names : ENABLED Invoke_greet(j, name)
                      /\ ENABLED Invoke_get_platform_info(j)
                      /\ \A path \in Paths, outcome \in SpawnOutcomes :
                            ENABLED Invoke_open_output_folder(j, path, outcome)
                      /\ \A url \in Urls : ENABLED Invoke_check_api_health(j, url)
                /\ (Suspended(j) /\ http[j].kind \in {"response", "failure"}) =>
                      ENABLED Resume_check_api_health(j))
    /\ [](\A i, j \in Slots :
            ( /\ calls[i].pc = "done" /\ calls[j].pc = "done"
              /\ calls[i].cmd = calls[j].cmd /\ calls[i].arg = calls[j].arg
              /\ External(i) = External(j) ) => calls[i].result = calls[j].result)
    /\ [][\A i, j \in Slots :
             (i # j /\ <<calls[i], http[i], procs[i]>>' # <<calls[i], http[i], procs[i]>>)
                 => <<calls[j], http[j], procs[j]>>' = <<calls[j], http[j], procs[j]>>]_vars

C9_Witness ==
    \E i, j \in Slots :
        /\ Suspended(i) /\ http[i].kind = "inflight"
        /\ i # j /\ OpenDone(j) /\ calls[j].result.tag = "Ok"

\* C10 (as stated): every check_api_health invocation, once issued, eventually
\* returns to its caller with a boolean or an error string.
C10_Original ==
    \A i \in Slots : Suspended(i) ~> HealthDone(i)

\* C10 (amended): every check_api_health invocation whose HTTP request
\* completes or fails eventually returns with a boolean or an error string;
\* with no timeout configured and no abort path, an invocation whose peer never
\* answers stays suspended.
C10_Theorem ==
    /\ \A i \in Slots :
          (Suspended(i) /\ http[i].kind \in {"response", "failure"}) ~>
              (HealthDone(i) /\ calls[i].result.tag \in {"Ok", "Err"})
    /\ [][\A i \in Slots :
             (Suspended(i) /\ http[i].kind = "stalled") =>
                 (Suspended(i)' /\ http'[i].kind = "stalled")]_vars

C10_Witness ==
    \E i, j \in Slots :
        /\ Suspended(i) /\ http[i].kind = "stalled"
        /\ HealthDone(j) /\ http[j].kind = "failure" /\ http[j].err = "dns"
====
